---- MODULE Spec2Model ----
(***************************************************************************)
(* Model of src/app_01.py: the FileManager class (parse_data,              *)
(* get_file_list, get_file_types, create_zip_in_memory), the selection     *)
(* logic of display_file_options and the archive step of main.             *)
(*                                                                         *)
(* A Python str is a sequence of one-character strings.  A dict is a       *)
(* sequence of [name, content] records in insertion order with unique      *)
(* names (Python dicts keep insertion order; assigning to an existing key  *)
(* keeps its position).                                                    *)
(***************************************************************************)
EXTENDS Naturals, Sequences, FiniteSets, TLC

VARIABLES
    files,                  \* self.files
    in_memory_zip,          \* self.in_memory_zip
    op,                     \* the operation performed last
    arg,                    \* the argument of that operation (text or selection)
    raised,                 \* the last operation ended with an uncaught exception
    zip_error,              \* st.error("Error creating zip file") was shown
    select_all,             \* state of the 'Select All Files' checkbox
    checked,                \* file types whose 'Select all .T files' box is checked
    selected_files,         \* display_file_options: selected_files after line 100
    selected_files_display, \* the list st.multiselect returned
    download_offered,       \* st.download_button was called with in_memory_zip
    prev                    \* the mapping of the parse before a re-parse

vars == <<files, in_memory_zip, op, arg, raised, zip_error, select_all, checked,
          selected_files, selected_files_display, download_offered, prev>>

----------------------------------------------------------------------------
(* Bounds of the model *)

MaxLines == 3       \* lines of a text given to the parser (SpecParse)
MaxApiLines == 2    \* lines of a text given to parse_data in Spec
MaxSel == 2         \* length of a selection passed directly to create_zip_in_memory

----------------------------------------------------------------------------
(* Characters and strings *)

LF == "\n"
CR == "\r"
\* The character U+0060 (the lexer of TLA+ takes no grave accent in a string).
Backtick == "<grave>"
Dot == "."

\* The line boundaries of str.splitlines that occur in the model's texts
\* ("\r\n" counts as one boundary, see LinesFrom).
LineBreaks == {LF, CR}

\* The literal "### File:" of line 45.
Marker == <<"#", "#", "#", " ", "F", "i", "l", "e", ":">>

RECURSIVE Concat(_)
Concat(ss) == IF ss = <<>> THEN <<>> ELSE Head(ss) \o Concat(Tail(ss))

SeqsUpTo(S, n) == UNION {[1..k -> S] : k \in 0..n}

Range(s) == {s[i] : i \in DOMAIN s}

NoDup(s) == \A i, j \in DOMAIN s : s[i] = s[j] => i = j

\* str.startswith
StartsWith(s, p) == Len(s) >= Len(p) /\ SubSeq(s, 1, Len(p)) = p

\* str.endswith
EndsWith(s, p) == Len(s) >= Len(p) /\ SubSeq(s, Len(s) - Len(p) + 1, Len(s)) = p

\* str.split(sep) for a one-character sep: the parts between the separators,
\* always one more than the number of separators.
RECURSIVE SplitFrom(_, _, _, _, _)
SplitFrom(s, sep, i, cur, acc) ==
    IF i > Len(s) THEN Append(acc, cur)
    ELSE IF s[i] = sep THEN SplitFrom(s, sep, i + 1, <<>>, Append(acc, cur))
    ELSE SplitFrom(s, sep, i + 1, Append(cur, s[i]), acc)

Split(s, sep) == SplitFrom(s, sep, 1, <<>>, <<>>)

\* str.splitlines(): the lines without their line breaks; a final line
\* without a break is kept unless it is empty.
RECURSIVE LinesFrom(_, _, _, _)
LinesFrom(s, i, cur, acc) ==
    IF i > Len(s) THEN (IF cur = <<>> THEN acc ELSE Append(acc, cur))
    ELSE IF s[i] = CR /\ i < Len(s) /\ s[i + 1] = LF
         THEN LinesFrom(s, i + 2, <<>>, Append(acc, cur))
    ELSE IF s[i] \in LineBreaks THEN LinesFrom(s, i + 1, <<>>, Append(acc, cur))
    ELSE LinesFrom(s, i + 1, Append(cur, s[i]), acc)

SplitLines(s) == LinesFrom(s, 1, <<>>, <<>>)

----------------------------------------------------------------------------
(* dict *)

EmptyDict == <<>>

Keys(d) == [i \in DOMAIN d |-> d[i].name]

KeySet(d) == {d[i].name : i \in DOMAIN d}

Has(d, k) == k \in KeySet(d)

\* d[k]; a missing key is a KeyError, which the callers test with Has
Lookup(d, k) == d[CHOOSE i \in DOMAIN d : d[i].name = k].content

\* The dict as a mapping, without the insertion order (dict equality).
Mapping(d) == [k \in KeySet(d) |-> Lookup(d, k)]

DictSetKeepFirst(d, k, v) ==
    IF Has(d, k) THEN d ELSE Append(d, [name |-> k, content |-> v])

\* d[k] = v
DictSet(d, k, v) ==
    IF Has(d, k)
    THEN [i \in DOMAIN d |-> IF d[i].name = k THEN [name |-> k, content |-> v] ELSE d[i]]
    ELSE Append(d, [name |-> k, content |-> v])

----------------------------------------------------------------------------
(* FileManager.parse_data *)

\* line 45: line.startswith("### File:")
IsDelimiter(line) == StartsWith(line, Marker)

TruthyAlways(s) == TRUE

\* lines 46 and 53: "if current_file_name:" (an empty str is false)
Truthy(s) == s # <<>>

\* lines 46-47 and 53-54
Commit(fs, name, content) ==
    IF Truthy(name) THEN DictSet(fs, name, content) ELSE fs

IndexOKStrict(parts, i) == i + 1 < Len(parts)

\* parts[i] with a Python (0-based) index i: an IndexError unless i < len(parts)
IndexOK(parts, i) == i < Len(parts)

Item(parts, i) == parts[i + 1]

ExtractNameFromEnd(line) == LET parts == Split(line, Backtick) IN parts[Len(parts) - 1]

\* line 48: line.split(Backtick)[1]
ExtractName(line) == Item(Split(line, Backtick), 1)

KeepContent(content) == content

\* line 49: current_file_content = ""
ResetContent(content) == <<>>

AppendLineNoNewline(content, line) == content \o line

\* line 51: current_file_content += line + "\n"
AppendLine(content, line) == content \o line \o <<LF>>

\* lines 44-54: the loop over the lines and the commit after it.  The result
\* is self.files and whether line 48 raised (the entries committed before
\* that stay in self.files).
RECURSIVE ParseLoop(_, _, _, _, _)
ParseLoop(lines, i, name, content, fs) ==
    IF i > Len(lines)
    THEN [files |-> Commit(fs, name, content), raised |-> FALSE]
    ELSE IF IsDelimiter(lines[i])
         THEN LET fs1 == Commit(fs, name, content)
              IN  IF ~IndexOK(Split(lines[i], Backtick), 1)
                  THEN [files |-> fs1, raised |-> TRUE]
                  ELSE ParseLoop(lines, i + 1, ExtractName(lines[i]),
                                 ResetContent(content), fs1)
         ELSE ParseLoop(lines, i + 1, name, AppendLine(content, lines[i]), fs)

\* lines 40-54, on a FileManager whose self.files is fs
parse_data(fs, raw_data) == ParseLoop(SplitLines(raw_data), 1, <<>>, <<>>, fs)

----------------------------------------------------------------------------
(* Input texts *)

NameAP == <<"a", Dot, "p">>
NameBQ == <<"b", Dot, "q">>
NameP == <<"p">>
NameMissing == <<"z">>

DelimiterLine(name) == Marker \o <<" ", Backtick>> \o name \o <<Backtick>>

\* The kinds of line of the model's texts.
LineKinds == <<
    DelimiterLine(NameAP),
    <<"x">>,
    DelimiterLine(NameP),
    DelimiterLine(NameBQ),
    <<>>,
    DelimiterLine(<<>>),                          \* an empty name
    Marker \o <<" ", Backtick>> \o NameBQ,         \* one backtick
    Marker \o <<" ">> \o NameP,                    \* no backtick
    DelimiterLine(NameP) \o <<Dot, Backtick>>,     \* three backticks
    <<" ">> \o DelimiterLine(NameP) >>            \* the marker not at the start

\* The kinds of line of the texts of Spec.
ApiLineKinds == SubSeq(LineKinds, 1, 4)

\* The text of the lines ls, each ended by the line break nl, the last one
\* only when last says so.
RECURSIVE Join(_, _, _)
Join(ls, nl, last) ==
    IF ls = <<>> THEN <<>>
    ELSE IF Len(ls) = 1 THEN Head(ls) \o (IF last THEN nl ELSE <<>>)
    ELSE Head(ls) \o nl \o Join(Tail(ls), nl, last)

TextsOf(kinds, n) ==
    {Join(ls, nl, last) : ls \in SeqsUpTo(Range(kinds), n),
                          nl \in {<<LF>>, <<CR, LF>>}, last \in BOOLEAN}

Texts == TextsOf(LineKinds, MaxLines)

ApiTexts == {Join(ls, <<LF>>, FALSE) : ls \in SeqsUpTo(Range(ApiLineKinds), MaxApiLines)}

----------------------------------------------------------------------------
(* The parser on its own: one parse_data call on a new FileManager, and a   *)
(* second parse, on another new FileManager, of the serialised result.      *)

None == [kind |-> "None"]

\* lines 15-18: FileManager.__init__
Init ==
    /\ files = EmptyDict
    /\ in_memory_zip = None
    /\ op = "init"
    /\ arg = <<>>
    /\ raised = FALSE
    /\ zip_error = FALSE
    /\ select_all = FALSE
    /\ checked = {}
    /\ selected_files = {}
    /\ selected_files_display = <<>>
    /\ download_offered = FALSE
    /\ prev = EmptyDict

\* The delimiter format of the input: the line "### File: " + Backtick + name + Backtick and the
\* content after it, for every entry in dict order.
Serialise(d) ==
    Concat([i \in DOMAIN d |-> DelimiterLine(d[i].name) \o <<LF>> \o d[i].content])

\* line 118: file_manager.parse_data(raw_data)
ParseData(t) ==
    /\ ~raised
    /\ LET r == parse_data(files, t)
       IN  /\ files' = r.files
           /\ raised' = r.raised
    /\ op' = "parse"
    /\ arg' = t
    /\ UNCHANGED <<in_memory_zip, zip_error, select_all, checked, selected_files,
                   selected_files_display, download_offered, prev>>

ParseOnce == op = "init" /\ \E t \in Texts : ParseData(t)

\* lines 115-118 again, on the serialised mapping
Reparse ==
    /\ op = "parse"
    /\ ~raised
    /\ LET t == Serialise(files)
           r == parse_data(EmptyDict, t)
       IN  /\ files' = r.files
           /\ raised' = r.raised
           /\ arg' = t
    /\ prev' = files
    /\ op' = "reparse"
    /\ UNCHANGED <<in_memory_zip, zip_error, select_all, checked, selected_files,
                   selected_files_display, download_offered>>

NextParse == ParseOnce \/ Reparse

SpecParse == Init /\ [][NextParse]_vars

----------------------------------------------------------------------------
(* FileManager.get_file_list, get_file_types and display_file_options *)

\* line 61: list(self.files.keys())
get_file_list(fs) == Keys(fs)

\* line 67: file_name.split('.')[-1]
FileType(file_name) == LET parts == Split(file_name, Dot) IN parts[Len(parts)]

\* line 67: the set of the types (the list made of it has any order)
get_file_types(fs) == {FileType(fs[i].name) : i \in DOMAIN fs}

\* The orders in which a list made of the set S can hold its elements.
Orders(S) == {s \in [1..Cardinality(S) -> S] : NoDup(s)}

\* line 98: file_name.endswith(f'.{file_type}')
MatchesType(file_name, file_type) == EndsWith(file_name, <<Dot>> \o file_type)

\* line 98: the names of file_list the checkbox of file_type selects
RECURSIVE NamesOfType(_, _)
NamesOfType(file_list, file_type) ==
    IF file_list = <<>> THEN <<>>
    ELSE (IF MatchesType(Head(file_list), file_type) THEN <<Head(file_list)>> ELSE <<>>)
         \o NamesOfType(Tail(file_list), file_type)

\* lines 96-98: the loop over the file types.  With 'Select All Files'
\* checked selected_files is the list file_list itself (line 93), so
\* that extend lengthens both.
RECURSIVE TypeLoop(_, _, _, _, _, _)
TypeLoop(file_types, i, boxes, alias, file_list, sel) ==
    IF i > Len(file_types) THEN [file_list |-> file_list, selected_files |-> sel]
    ELSE IF file_types[i] \in boxes
         THEN LET ext == sel \o NamesOfType(file_list, file_types[i])
              IN  TypeLoop(file_types, i + 1, boxes, alias,
                           IF alias THEN ext ELSE file_list, ext)
         ELSE TypeLoop(file_types, i + 1, boxes, alias, file_list, sel)

\* lines 88-100: the options of the multiselect and its default, a list made
\* of a set
SelectionOf(fs, file_types, all, boxes) ==
    LET file_list == get_file_list(fs)
        r == TypeLoop(file_types, 1, boxes, all, file_list,
                      IF all THEN file_list ELSE <<>>)
    IN  [options |-> r.file_list, default |-> Range(r.selected_files)]

----------------------------------------------------------------------------
(* FileManager.create_zip_in_memory *)

\* line 74: io.BytesIO().  The buffer holds the archive as the list of its
\* entries; pos is the read/write position, counted in archive records.
BytesIO == [kind |-> "BytesIO", entries |-> <<>>, pos |-> 0]

\* line 77: zipf.writestr(file_name, data) appends an entry
WriteStr(buf, file_name, data) ==
    [buf EXCEPT !.entries = Append(@, [name |-> file_name, content |-> data]),
                !.pos = @ + 1]

\* line 75: leaving the with block closes the archive, which writes the
\* central directory after the entries
CloseZip(buf) == [buf EXCEPT !.pos = @ + 1]

SeekNone(buf) == buf

\* line 78: self.in_memory_zip.seek(0)
Seek0(buf) == [buf EXCEPT !.pos = 0]

\* lines 76-77: the entries in the order of selected_files; self.files[name]
\* raises KeyError for a name that is no key, and the loop ends there
RECURSIVE WriteLoop(_, _, _, _)
WriteLoop(fs, selected, i, buf) ==
    IF i > Len(selected) THEN [buf |-> buf, raised |-> FALSE]
    ELSE IF ~Has(fs, selected[i]) THEN [buf |-> buf, raised |-> TRUE]
    ELSE WriteLoop(fs, selected, i + 1,
                   WriteStr(buf, selected[i], Lookup(fs, selected[i])))

\* lines 73-82: the buffer left in self.in_memory_zip and whether the except
\* branch ran
create_zip_in_memory(fs, selected) ==
    LET w == WriteLoop(fs, selected, 1, BytesIO)
    IN  IF w.raised
        THEN [buf |-> CloseZip(w.buf), error |-> TRUE]
        ELSE [buf |-> Seek0(CloseZip(w.buf)), error |-> FALSE]

----------------------------------------------------------------------------
(* The FileManager object under the calls main and other callers make *)

\* The names a caller may pass to create_zip_in_memory.
SelNames == {NameAP, NameP, NameBQ, NameMissing}

\* line 115: a run of main makes a new FileManager
Construct ==
    /\ op # "init"
    /\ files' = EmptyDict
    /\ in_memory_zip' = None
    /\ op' = "init"
    /\ arg' = <<>>
    /\ raised' = FALSE
    /\ zip_error' = FALSE
    /\ select_all' = FALSE
    /\ checked' = {}
    /\ selected_files' = {}
    /\ selected_files_display' = <<>>
    /\ download_offered' = FALSE
    /\ prev' = EmptyDict

\* parse_data called on the FileManager, whatever it parsed before
ParseCall == op \in {"init", "parse"} /\ \E t \in ApiTexts : ParseData(t)

\* line 119: display_file_options.  The checkboxes and the choice made in
\* the multiselect are the user's; the multiselect returns chosen options.
DisplayFileOptions ==
    /\ op = "parse"
    /\ \E all \in BOOLEAN, boxes \in SUBSET get_file_types(files) :
         \E file_types \in Orders(get_file_types(files)) :
            LET s == SelectionOf(files, file_types, all, boxes)
            IN  /\ select_all' = all
                /\ checked' = boxes
                /\ selected_files' = s.default
                /\ \E chosen \in SUBSET Range(s.options) :
                      \E display \in Orders(chosen) : selected_files_display' = display
    /\ op' = "display"
    /\ arg' = <<>>
    /\ UNCHANGED <<files, in_memory_zip, raised, zip_error, download_offered, prev>>

\* lines 129-136: the archive of the selection and the download button
MainZip ==
    /\ op = "display"
    /\ selected_files_display # <<>>
    /\ LET z == create_zip_in_memory(files, selected_files_display)
       IN  /\ in_memory_zip' = z.buf
           /\ zip_error' = z.error
    /\ download_offered' = TRUE
    /\ op' = "zip"
    /\ arg' = selected_files_display
    /\ UNCHANGED <<files, raised, select_all, checked, selected_files,
                   selected_files_display, prev>>

\* create_zip_in_memory called with any list of names
CreateZipCall ==
    /\ op = "parse"
    /\ \E selected \in SeqsUpTo(SelNames, MaxSel) :
          /\ LET z == create_zip_in_memory(files, selected)
             IN  /\ in_memory_zip' = z.buf
                 /\ zip_error' = z.error
          /\ arg' = selected
    /\ op' = "zip"
    /\ UNCHANGED <<files, raised, select_all, checked, selected_files,
                   selected_files_display, download_offered, prev>>

Next == Construct \/ ParseCall \/ DisplayFileOptions \/ MainZip \/ CreateZipCall

Spec == Init /\ [][Next]_vars

----------------------------------------------------------------------------
(* The input as the specification describes it: delimiter lines, the name  *)
(* between the backticks, and the segment of lines after a delimiter line. *)

Min(S) == CHOOSE m \in S : \A n \in S : m <= n

Max(S) == CHOOSE m \in S : \A n \in S : n <= m

Positions(s, c) == {i \in DOMAIN s : s[i] = c}

Backticks(line) == Cardinality(Positions(line, Backtick))

\* The lines of the text of the last parse.
InputLines == SplitLines(arg)

Delims(ls) == {i \in DOMAIN ls : IsDelimiter(ls[i])}

WellFormed(ls) == \A i \in Delims(ls) : Backticks(ls[i]) >= 2

\* The text strictly between the first backtick and the second one (or the
\* end of the line when there is only one).
NameOf(line) ==
    LET P == Positions(line, Backtick)
        a == Min(P)
        b == IF P = {a} THEN Len(line) + 1 ELSE Min(P \ {a})
    IN  SubSeq(line, a + 1, b - 1)

SegmentEnd(ls, i) ==
    IF \E j \in Delims(ls) : j > i
    THEN Min({j \in Delims(ls) : j > i}) - 1
    ELSE Len(ls)

\* The lines after the delimiter line i up to the next one, each with a newline.
SegmentContent(ls, i) ==
    Concat([k \in 1..(SegmentEnd(ls, i) - i) |-> ls[i + k] \o <<LF>>])

Naming(ls, n) == {i \in Delims(ls) : NameOf(ls[i]) = n}

Entries(d, n) == {i \in DOMAIN d : d[i].name = n}

Parsed == op = "parse" /\ ~raised

\* The content the specification gives the name n: the lines after the
\* last delimiter line naming n.
ContentOf(ls, n) == SegmentContent(ls, Max(Naming(ls, n)))

\* The names of the delimiter lines of ls.
NamesIn(ls) == {NameOf(ls[i]) : i \in Delims(ls)}

\* C1 as stated: for a well-formed input parse_data maps every file name of a
\* delimiter line to the lines that follow the (last) delimiter line of that
\* name up to the next delimiter line or the end, each followed by a newline.
C1_EveryNameMapped ==
    LET ls == InputLines
    IN  (Parsed /\ WellFormed(ls)) =>
            \A n \in NamesIn(ls) : Has(files, n) /\ Lookup(files, n) = ContentOf(ls, n)

\* C1 amended: the same for every non-empty file name of a delimiter line.
C1_NonEmptyNameMapped ==
    LET ls == InputLines
    IN  (Parsed /\ WellFormed(ls)) =>
            \A n \in NamesIn(ls) \ {<<>>} :
                Has(files, n) /\ Lookup(files, n) = ContentOf(ls, n)

C1_Witness ==
    /\ Parsed
    /\ WellFormed(InputLines)
    /\ Len(InputLines) = MaxLines
    /\ Has(files, NameAP)
    /\ Lookup(files, NameAP) = <<"x", LF, LF>>

\* C2 as stated: a delimiter line with an empty name is accepted and the
\* mapping then holds the empty key with the lines that followed that line.
C2_EmptyKeyStored ==
    LET ls == InputLines
    IN  (Parsed /\ <<>> \in NamesIn(ls)) =>
            Has(files, <<>>) /\ Lookup(files, <<>>) = ContentOf(ls, <<>>)

\* C2 amended: a delimiter line with an empty name raises no error and gives
\* no entry: the mapping never holds the empty key, and the lines after that
\* delimiter line are in no entry (the keys are the non-empty names alone).
C2_EmptyNameDropped ==
    LET ls == InputLines
    IN  op = "parse" =>
            /\ ~Has(files, <<>>)
            /\ WellFormed(ls) => (~raised /\ KeySet(files) = NamesIn(ls) \ {<<>>})

C2_Witness ==
    /\ Parsed
    /\ \E i \in Naming(InputLines, <<>>) : SegmentContent(InputLines, i) # <<>>
    /\ files = EmptyDict

\* C3 as stated: a delimiter line with fewer than two backticks makes
\* parse_data fail.
C3_FewerThanTwoFails ==
    LET ls == InputLines
    IN  (op = "parse" /\ \E i \in Delims(ls) : Backticks(ls[i]) < 2) => raised

\* C3 amended: parse_data fails exactly when a delimiter line has no backtick,
\* and then no entry is made for that line or any later one; a delimiter
\* line with exactly one backtick does not fail: its name is the text after
\* the backtick.
C3_NoBacktickFails ==
    LET ls == InputLines
        D == Delims(ls)
        Z == {i \in D : Backticks(ls[i]) = 0}
    IN  op = "parse" =>
            /\ raised <=> Z # {}
            /\ raised => KeySet(files) \subseteq {NameOf(ls[i]) : i \in {j \in D : j < Min(Z)}}
            /\ ~raised =>
                 \A i \in D :
                     (Backticks(ls[i]) = 1 /\ NameOf(ls[i]) # <<>>) =>
                         /\ NameOf(ls[i]) = SubSeq(ls[i], Min(Positions(ls[i], Backtick)) + 1,
                                                   Len(ls[i]))
                         /\ Has(files, NameOf(ls[i]))

C3_Witness ==
    /\ Parsed
    /\ \E i \in Delims(InputLines) : Backticks(InputLines[i]) = 1
    /\ Has(files, NameBQ)
    /\ Lookup(files, NameBQ) # <<>>

\* C8 as stated: when two or more delimiter lines of one input name the same
\* file, the mapping has a single entry of that name, whose content is the
\* lines after the last of those delimiter lines.
C8_LastWriteWins ==
    LET ls == InputLines
    IN  Parsed =>
            \A n \in NamesIn(ls) :
                Cardinality(Naming(ls, n)) >= 2 =>
                    /\ Cardinality(Entries(files, n)) = 1
                    /\ Lookup(files, n) = ContentOf(ls, n)

\* C8 amended: the same when the repeated name is not empty.
C8_LastWriteWinsNonEmpty ==
    LET ls == InputLines
    IN  Parsed =>
            \A n \in NamesIn(ls) \ {<<>>} :
                Cardinality(Naming(ls, n)) >= 2 =>
                    /\ Cardinality(Entries(files, n)) = 1
                    /\ Lookup(files, n) = ContentOf(ls, n)

C8_Witness ==
    /\ Parsed
    /\ \E i, j \in Naming(InputLines, NameAP) :
          /\ i < j
          /\ SegmentContent(InputLines, i) # SegmentContent(InputLines, j)
    /\ Lookup(files, NameAP) = <<>>

\* C9: parsing the serialised mapping of a parse gives the same mapping.
C9_RoundTrip ==
    op = "reparse" => (~raised /\ Mapping(files) = Mapping(prev))

C9_Witness ==
    /\ op = "reparse"
    /\ Len(prev) >= 2
    /\ \E i \in DOMAIN prev : prev[i].content # <<>>

FromFirstDelimiter(ls) ==
    IF Delims(ls) = {} THEN <<>> ELSE SubSeq(ls, Min(Delims(ls)), Len(ls))

\* C10: the lines before the first delimiter line are in no entry (the
\* mapping is that of the input without them, and every content is a
\* segment after a delimiter line), and an input without a delimiter line
\* gives the empty mapping.
C10_PreambleDiscarded ==
    LET ls == InputLines
        D == Delims(ls)
    IN  op = "parse" =>
            /\ D = {} => (files = EmptyDict /\ ~raised)
            /\ files = ParseLoop(FromFirstDelimiter(ls), 1, <<>>, <<>>, EmptyDict).files
            /\ \A k \in KeySet(files) : \E i \in D : Lookup(files, k) = SegmentContent(ls, i)

C10_Witness ==
    /\ Parsed
    /\ Len(InputLines) = MaxLines
    /\ ~IsDelimiter(InputLines[1])
    /\ InputLines[1] # <<>>
    /\ \E k \in KeySet(files) : Lookup(files, k) # <<>>

----------------------------------------------------------------------------
(* The claims about the selection, the archive and repeated parsing *)

\* C4 as stated: when create_zip_in_memory is given a name that is no key of
\* the parsed files, no buffer is produced (in_memory_zip holds none) and no
\* download is offered.
C4_NoBufferOnFailure ==
    (op = "zip" /\ ~(Range(arg) \subseteq KeySet(files))) =>
        /\ zip_error
        /\ in_memory_zip = None
        /\ ~download_offered

\* C5 as stated: the checkbox of a file type T adds to the selection exactly
\* the names whose type is T, the names without a dot included.
C5_SelectAllOfType ==
    op = "display" =>
        selected_files =
            (IF select_all THEN KeySet(files) ELSE {})
                \cup {n \in KeySet(files) : FileType(n) \in checked}

C7_NoMemoryOfPriorCalls ==
    (op = "parse" /\ ~raised) => Mapping(files) = Mapping(parse_data(EmptyDict, arg).files)

====
